---------------------------- MODULE Spec2Model ----------------------------
(***************************************************************************)
(* Campus security prescriptive model: the training run of src/src/model.py *)
(* (prepare_features, train_model, generate_prescriptive_rules, the pickle  *)
(* dump of the bundle) and the inference engine of src/src/report.py        *)
(* (generate_security_report), which may run as a separate process at any   *)
(* time and shares only the bundle file with the training run.              *)
(***************************************************************************)
EXTENDS Integers, Sequences, FiniteSets, TLC

(***************************************************************************)
(* Bounds of the model.                                                     *)
(***************************************************************************)
\* query hours range over (0 - HourSlack)..(23 + HourSlack)
HourSlack == 1
\* classifier probabilities are the fractions k / ProbDen, k in 0..ProbDen
ProbDen == 10
\* number of buffer flushes pickle.dump needs to write a whole bundle
NChunks == 2

(***************************************************************************)
(* Program constants.                                                       *)
(***************************************************************************)
\* report.py:48   risk_prob > 0.6  and  risk_prob > 0.3, as tenths
HIGH_TENTHS == 6
MODERATE_TENTHS == 3
TENTHS == 10
\* report.py:62   hour >= 18 or hour <= 5
NIGHT_FROM == 18
NIGHT_UNTIL == 5
\* report.py:67 and 69: the slices [:2] and [:1]
THEFT_SLICE == 2
ASSAULT_SLICE == 1
\* report.py:11   vict_age=20
VICT_AGE_DEFAULT == 20

\* Python's None where a string is expected
None == "None"

Min(a, b) == IF a <= b THEN a ELSE b

\* Python's s[:n] for n >= 0
Take(s, n) == SubSeq(s, 1, Min(n, Len(s)))

(***************************************************************************)
(* model.py:26-66.  An entry of the catalogue is named by its key and its   *)
(* position in the key's list.                                              *)
(***************************************************************************)
Entries(key, n) == [i \in 1..n |-> <<key, i>>]

PRESCRIPTIONS ==
    [k \in {"THEFT/ROBBERY", "ASSAULT/VIOLENCE", "SEXUAL HARASSMENT/ASSAULT",
            "VANDALISM/TRESPASSING", "DRUG-RELATED",
            "HIGH_RISK_TIME_NIGHT", "HIGH_RISK_WEEKEND"} |->
        CASE k = "HIGH_RISK_TIME_NIGHT" -> Entries(k, 3)
          [] k = "HIGH_RISK_WEEKEND"    -> Entries(k, 2)
          [] OTHER                      -> Entries(k, 4)]

\* the category labels preprocess can assign, in Python's string order
\* (the order LabelEncoder sorts its classes in)
CategoryOrder ==
    <<"ASSAULT/VIOLENCE", "DRUG-RELATED", "OTHER", "SEXUAL HARASSMENT/ASSAULT",
      "THEFT/ROBBERY", "UNKNOWN", "VANDALISM/TRESPASSING">>

Categories == {CategoryOrder[i] : i \in DOMAIN CategoryOrder}

\* the dataset columns prepare_features tests for
OptionalColumns == {"HOUR", "IS_WEEKEND", "CRIME_CATEGORY", "VICT_AGE", "IS_CAMPUS_SPECIFIC"}

VARIABLES
    df_columns,        \* columns of the dataset load_data returned
    df_categories,     \* labels occurring in its CRIME_CATEGORY column
    y_nunique,         \* number of distinct values of its HIGH_RISK column
    run_pc,            \* position of model.run
    features,          \* run's local: the feature-name list
    encoder,           \* run's local: the fitted LabelEncoder, or None
    model_file,        \* the file campus_security_model.pkl (run started in
                       \* src/, where "../outputs/models" of model.py:17 is
                       \* the directory MODEL_PATH of report.py:9 names)
    report_pc,         \* position of generate_security_report
    hour,              \* its arguments
    is_weekend,
    bundle,            \* what pickle.load returned
    risk_prob,         \* numerator of the classifier's probability
    risk_level,
    printed,           \* the lines printed under RECOMMENDED ACTIONS
    error_line,        \* the error line printed, or None
    exception,         \* the exception the call raised, or None
    dataset,           \* the rows of the df handed to generate_prescriptive_rules
    derive_pc,         \* position of generate_prescriptive_rules
    rules,             \* the list it returned
    raw_columns,       \* column names of the raw file preprocess.run loads
    raw_campus_rows,   \* how many of its rows have a campus premise
    raw_row,           \* one row of it
    pre_pc,            \* position of preprocess.run
    frame_columns,     \* columns of the DataFrame preprocess works on
    record,            \* what preprocess has derived for that row
    live_pc,           \* position of live_mode
    live_hour,         \* its locals hour and is_weekend
    live_weekend,
    live_said,         \* the line the loop printed for the last query, or None
    live_typed,        \* what kind of answer the last prompt got, or None
    age_column,        \* the VICT_AGE column handed to prepare_features
    age_pc,            \* off, loaded, prepared or raised
    age_feature        \* the VICT_AGE column of X that prepare_features returns

vars == <<df_columns, df_categories, y_nunique, run_pc, features, encoder,
          model_file, report_pc, hour, is_weekend, bundle, risk_prob,
          risk_level, printed, error_line, exception, dataset, derive_pc, rules,
          raw_columns, raw_campus_rows, raw_row, pre_pc, frame_columns, record,
          live_pc, live_hour, live_weekend, live_said, live_typed,
          age_column, age_pc, age_feature>>

run_vars == <<df_columns, df_categories, y_nunique, run_pc, features, encoder>>
report_vars == <<report_pc, hour, is_weekend, bundle, risk_prob, risk_level,
                 printed, error_line, exception>>
derive_vars == <<dataset, derive_pc, rules>>

pre_vars == <<raw_columns, raw_campus_rows, raw_row, pre_pc, frame_columns, record>>
live_vars == <<live_pc, live_hour, live_weekend, live_said, live_typed>>

\* what the training run and the report call never touch
age_vars == <<age_column, age_pc, age_feature>>
beyond_pipeline == <<derive_vars, pre_vars, live_vars, age_vars>>

Hours == (0 - HourSlack)..(23 + HourSlack)
Probs == 0..ProbDen


(***************************************************************************)
(* The dataset load_data reads (model.py:68-70) is an input of the run:    *)
(* any subset of the optional columns, a HIGH_RISK column with 0 (no       *)
(* rows), 1 or 2 distinct values, and the labels of the category column.   *)
(***************************************************************************)
CategorySets == {{"UNKNOWN"}, {"THEFT/ROBBERY", "OTHER"}}

\* model.py:77-102, the names appended to `features`, in the order appended
FeatureOrder ==
    <<"HOUR", "HOUR_SIN", "HOUR_COS", "IS_WEEKEND", "CRIME_CAT_ENC",
      "VICT_AGE", "IS_CAMPUS_SPECIFIC">>

\* model.py:77-102, the dataset column whose presence appends feature f
SourceColumn(f) ==
    CASE f \in {"HOUR", "HOUR_SIN", "HOUR_COS"} -> "HOUR"
      [] f = "CRIME_CAT_ENC" -> "CRIME_CATEGORY"
      [] OTHER -> f

\* model.py:72-111, the third value prepare_features returns
prepare_features(columns) ==
    SelectSeq(FeatureOrder, LAMBDA f : SourceColumn(f) \in columns)

\* model.py:86-92, the fourth value: LabelEncoder.fit sorts the distinct labels
NoEncoder == [fitted |-> FALSE, classes |-> <<>>]

category_encoder(columns, categories) ==
    IF "CRIME_CATEGORY" \in columns
    THEN [fitted |-> TRUE,
          classes |-> SelectSeq(CategoryOrder, LAMBDA c : c \in categories)]
    ELSE NoEncoder

\* model.py:287, the dict handed to pickle.dump: key -> [kind, val].  The
\* fitted classifier is named by the feature list it was fitted on; the
\* content of the rule list is not read by generate_security_report.
dumped_bundle(feats, enc) ==
    [k \in {"model", "features", "rules"} |->
        CASE k = "model" -> [kind |-> "classifier", val |-> feats]
          [] k = "features" -> [kind |-> "feature_list", val |-> feats]
          [] OTHER -> [kind |-> "rule_list", val |-> <<>>]]

\* no file at the path
NoFile == [exists |-> FALSE, data |-> <<>>, written |-> 0, writer |-> None]

(***************************************************************************)
(* model.py:273-291, run, one action per step.                             *)
(***************************************************************************)
run_prepare_features ==
    /\ run_pc = "start"
    /\ features' = prepare_features(df_columns)
    /\ encoder' = category_encoder(df_columns, df_categories)
    /\ run_pc' = "prepared"
    /\ UNCHANGED <<df_columns, df_categories, y_nunique, model_file>>
    /\ UNCHANGED report_vars
    /\ UNCHANGED beyond_pipeline

\* a train_model without the label check
run_train_model_unchecked ==
    /\ run_pc = "prepared"
    /\ run_pc' = "trained"
    /\ UNCHANGED <<df_columns, df_categories, y_nunique, features, encoder, model_file>>
    /\ UNCHANGED report_vars
    /\ UNCHANGED beyond_pipeline

\* model.py:114-139: the label check raises before the split and the fit
run_train_model ==
    /\ run_pc = "prepared"
    /\ run_pc' = IF y_nunique < 2 THEN "ValueError" ELSE "trained"
    /\ UNCHANGED <<df_columns, df_categories, y_nunique, features, encoder, model_file>>
    /\ UNCHANGED report_vars
    /\ UNCHANGED beyond_pipeline

\* model.py:279-283: evaluation, plots and rule derivation
run_generate_rules ==
    /\ run_pc = "trained"
    /\ run_pc' = "derived"
    /\ UNCHANGED <<df_columns, df_categories, y_nunique, features, encoder, model_file>>
    /\ UNCHANGED report_vars
    /\ UNCHANGED beyond_pipeline

\* model.py:286: open(..., "wb") creates the file, or truncates the one there
run_open ==
    /\ run_pc = "derived"
    /\ model_file' = [exists |-> TRUE, data |-> dumped_bundle(features, encoder),
                      written |-> 0, writer |-> "run"]
    /\ run_pc' = "dumping"
    /\ UNCHANGED <<df_columns, df_categories, y_nunique, features, encoder>>
    /\ UNCHANGED report_vars
    /\ UNCHANGED beyond_pipeline

\* model.py:287: pickle.dump writes the bundle to the open file piece by piece
run_dump ==
    /\ run_pc = "dumping"
    /\ model_file.written < NChunks
    /\ model_file' = [model_file EXCEPT !.written = @ + 1]
    /\ UNCHANGED run_vars
    /\ UNCHANGED report_vars
    /\ UNCHANGED beyond_pipeline

\* model.py:286-288: leaving the with block closes the file
run_close ==
    /\ run_pc = "dumping"
    /\ model_file.written = NChunks
    /\ run_pc' = "saved"
    /\ UNCHANGED <<df_columns, df_categories, y_nunique, features, encoder, model_file>>
    /\ UNCHANGED report_vars
    /\ UNCHANGED beyond_pipeline


(***************************************************************************)
(* report.py:11-75, generate_security_report.                              *)
(***************************************************************************)
\* 1000 * sin(2 * pi * h / 24), rounded, for h = 0..23
SinTable ==
    <<0, 259, 500, 707, 866, 966, 1000, 966, 866, 707, 500, 259,
      0, -259, -500, -707, -866, -966, -1000, -966, -866, -707, -500, -259>>

\* report.py:28-29
hour_sin(h) == SinTable[(h % 24) + 1]
hour_cos(h) == SinTable[((h + 6) % 24) + 1]

\* report.py:32-41, the one-row DataFrame of the query, column -> value;
\* latitude and longitude are in hundredths of a degree
input_df(h, weekend, lat, lon, vict_age) ==
    [c \in {"hour", "hour_sin", "hour_cos", "is_weekend", "lat", "lon",
            "vict_age", "is_campus_specific"} |->
        CASE c = "hour" -> h
          [] c = "hour_sin" -> hour_sin(h)
          [] c = "hour_cos" -> hour_cos(h)
          [] c = "is_weekend" -> IF weekend THEN 1 ELSE 0
          [] c = "lat" -> lat
          [] c = "lon" -> lon
          [] c = "vict_age" -> vict_age
          [] OTHER -> 1]

\* report.py:23-25, the keys read from the loaded bundle, in the order read
ReadKeys == <<"model", "features", "prescriptions">>

\* report.py:23-25: the first key the bundle lacks raises KeyError
MissingKeys(b) == {i \in DOMAIN ReadKeys : ReadKeys[i] \notin DOMAIN b}
FirstMissing(b) == ReadKeys[CHOOSE i \in MissingKeys(b) : \A j \in MissingKeys(b) : i <= j]

\* report.py:44, input_df[features]: the columns a DataFrame lacks raise KeyError
UnknownColumns(df, feats) == {i \in DOMAIN feats : feats[i] \notin DOMAIN df}

\* report.py:48; p stands for the probability p / ProbDen.  The first two
\* are the variants with one comparison made non-strict, which the tier
\* properties must tell from the code's.
risk_level_at_least_high(p) ==
    IF p * TENTHS >= HIGH_TENTHS * ProbDen THEN "HIGH"
    ELSE IF p * TENTHS > MODERATE_TENTHS * ProbDen THEN "MODERATE"
    ELSE "LOW"

risk_level_at_least_moderate(p) ==
    IF p * TENTHS > HIGH_TENTHS * ProbDen THEN "HIGH"
    ELSE IF p * TENTHS >= MODERATE_TENTHS * ProbDen THEN "MODERATE"
    ELSE "LOW"

risk_level_of(p) ==
    IF p * TENTHS > HIGH_TENTHS * ProbDen THEN "HIGH"
    ELSE IF p * TENTHS > MODERATE_TENTHS * ProbDen THEN "MODERATE"
    ELSE "LOW"

\* report.py:62
is_night(h) == h >= NIGHT_FROM \/ h <= NIGHT_UNTIL

\* report.py:72-73, the two lines of the else branch (routine_only: the
\* variant that prints the first alone)
ROUTINE_PATROLS == "Routine patrols sufficient."
SEE_SOMETHING == "Maintain standard 'See Something, Say Something' visibility."

routine_only == <<ROUTINE_PATROLS>>
routine_lines == <<ROUTINE_PATROLS, SEE_SOMETHING>>

\* report.py:60-73, the lines printed under RECOMMENDED ACTIONS (no_slices:
\* the variant that prints the two catalogue lists whole; no_else_branch: the
\* variant that prints nothing below tier HIGH)
no_slices(level, h, prescriptions) ==
    IF level = "HIGH"
    THEN (IF is_night(h) THEN prescriptions["HIGH_RISK_TIME_NIGHT"] ELSE <<>>)
         \o prescriptions["THEFT/ROBBERY"]
         \o prescriptions["ASSAULT/VIOLENCE"]
    ELSE routine_lines

no_else_branch(level, h, prescriptions) ==
    IF level = "HIGH"
    THEN (IF is_night(h) THEN prescriptions["HIGH_RISK_TIME_NIGHT"] ELSE <<>>)
         \o Take(prescriptions["THEFT/ROBBERY"], THEFT_SLICE)
         \o Take(prescriptions["ASSAULT/VIOLENCE"], ASSAULT_SLICE)
    ELSE <<>>

recommended_actions(level, h, prescriptions) ==
    IF level = "HIGH"
    THEN (IF is_night(h) THEN prescriptions["HIGH_RISK_TIME_NIGHT"] ELSE <<>>)
         \o Take(prescriptions["THEFT/ROBBERY"], THEFT_SLICE)
         \o Take(prescriptions["ASSAULT/VIOLENCE"], ASSAULT_SLICE)
    ELSE routine_lines

\* report.py:23-41: a bundle generate_security_report can score with holds
\* the three keys it reads and a feature list drawn from the query's columns
ReportFeatures ==
    <<"hour", "hour_sin", "hour_cos", "is_weekend", "lat", "lon", "vict_age",
      "is_campus_specific">>

ReportBundle ==
    [k \in {"model", "features", "prescriptions"} |->
        CASE k = "model" -> [kind |-> "classifier", val |-> ReportFeatures]
          [] k = "features" -> [kind |-> "feature_list", val |-> ReportFeatures]
          [] OTHER -> [kind |-> "catalogue", val |-> PRESCRIPTIONS]]

\* main.py:61-62, the campus-centre defaults, in hundredths of a degree
DEFAULT_LAT == 3407
DEFAULT_LON == -11844


\* nothing loaded yet
NoBundle == <<>>

\* report.py:15, os.path.exists(MODEL_PATH) (exists_unchecked: the variant
\* without the test)
exists_unchecked(file) == TRUE
os_path_exists(file) == file.exists

\* report.py:15-18: the call with its arguments, and the test that the file
\* exists; without the file an error line is printed and the call returns.
report_begin(h, w) ==
    /\ report_pc = "idle"
    /\ hour' = h
    /\ is_weekend' = w
    /\ bundle' = NoBundle
    /\ risk_prob' = -1
    /\ risk_level' = None
    /\ printed' = <<>>
    /\ exception' = None
    /\ IF os_path_exists(model_file)
       THEN /\ report_pc' = "opening"
            /\ error_line' = None
       ELSE /\ report_pc' = "returned"
            /\ error_line' = "Model file not found"
    /\ UNCHANGED model_file
    /\ UNCHANGED run_vars

\* a call of generate_security_report from outside live_mode.  The function
\* keeps nothing from one call to the next, so one call, started at any
\* moment of the training run, stands for every call.
report_call ==
    /\ \E h \in Hours, w \in BOOLEAN : report_begin(h, w)
    /\ UNCHANGED beyond_pipeline

\* report.py:21-25: open, pickle.load and the three reads of the bundle.
\* A file that holds only part of a pickle makes pickle.load raise.
report_load ==
    /\ report_pc = "opening"
    /\ IF model_file.written < NChunks
       THEN /\ exception' = "UnpicklingError"
            /\ report_pc' = "raised"
            /\ bundle' = bundle
       ELSE /\ bundle' = model_file.data
            /\ IF MissingKeys(model_file.data) # {}
               THEN /\ exception' = FirstMissing(model_file.data)
                    /\ report_pc' = "raised"
               ELSE /\ exception' = None
                    /\ report_pc' = "loaded"
    /\ UNCHANGED <<hour, is_weekend, risk_prob, risk_level, printed, error_line>>
    /\ UNCHANGED model_file
    /\ UNCHANGED run_vars
    /\ UNCHANGED beyond_pipeline

\* report.py:28-75: the query record, the selection by the stored feature
\* list, the classifier's probability, the tier and the printed actions
report_assess ==
    /\ report_pc = "loaded"
    /\ LET df == input_df(hour, is_weekend, DEFAULT_LAT, DEFAULT_LON, VICT_AGE_DEFAULT)
           feats == bundle["features"].val
       IN  IF UnknownColumns(df, feats) # {}
           THEN /\ exception' = "KeyError"
                /\ report_pc' = "raised"
                /\ UNCHANGED <<risk_prob, risk_level, printed>>
           ELSE \E p \in Probs :
                  /\ risk_prob' = p
                  /\ risk_level' = risk_level_of(p)
                  /\ printed' = recommended_actions(risk_level_of(p), hour,
                                                    bundle["prescriptions"].val)
                  /\ exception' = None
                  /\ report_pc' = "returned"
    /\ UNCHANGED <<hour, is_weekend, bundle, error_line>>
    /\ UNCHANGED model_file
    /\ UNCHANGED run_vars
    /\ UNCHANGED beyond_pipeline

\* generate_prescriptive_rules is not followed row by row here
derive_off ==
    /\ dataset = <<>>
    /\ derive_pc = "off"
    /\ rules = <<>>

\* preprocess.run is not followed here: the dataset is already on disk
pre_off ==
    /\ raw_columns = {}
    /\ raw_campus_rows = 0
    /\ raw_row = <<>>
    /\ pre_pc = "off"
    /\ frame_columns = {}
    /\ record = <<>>

\* live_mode is not entered
live_off ==
    /\ live_pc = "off"
    /\ live_hour = 0
    /\ live_weekend = FALSE
    /\ live_said = None
    /\ live_typed = None

\* no VICT_AGE column is being prepared
age_off ==
    /\ age_column = <<>>
    /\ age_pc = "off"
    /\ age_feature = <<>>

(***************************************************************************)
(* The initial state: a dataset on disk, no run and no query started yet,  *)
(* and at the bundle's path either no file or a bundle of an earlier       *)
(* producer that generate_security_report can read.                        *)
(***************************************************************************)
Init ==
    /\ df_columns \in SUBSET OptionalColumns
    /\ y_nunique \in 0..2
    /\ df_categories \in
          IF "CRIME_CATEGORY" \in df_columns /\ y_nunique > 0
          THEN CategorySets ELSE {{}}
    /\ run_pc = "start"
    /\ features = <<>>
    /\ encoder = NoEncoder
    /\ model_file \in
          {NoFile,
           [exists |-> TRUE, data |-> ReportBundle, written |-> NChunks,
            writer |-> "earlier"]}
    /\ report_pc = "idle"
    /\ hour = 0
    /\ is_weekend = FALSE
    /\ bundle = NoBundle
    /\ risk_prob = -1
    /\ risk_level = None
    /\ printed = <<>>
    /\ error_line = None
    /\ exception = None
    /\ derive_off
    /\ pre_off
    /\ live_off
    /\ age_off

Next ==
    \/ run_prepare_features
    \/ run_train_model
    \/ run_generate_rules
    \/ run_open
    \/ run_dump
    \/ run_close
    \/ report_call
    \/ report_load
    \/ report_assess

Spec == Init /\ [][Next]_vars


(***************************************************************************)
(* Properties.                                                             *)
(***************************************************************************)
\* the call has loaded the bundle the training run persisted
LoadedRunBundle ==
    /\ report_pc \in {"loaded", "returned", "raised"}
    /\ DOMAIN bundle # {}
    /\ model_file.writer = "run"
    /\ model_file.written = NChunks
    /\ bundle = model_file.data

\* the call went through the scoring step and the printing of the actions
Scored == report_pc = "returned" /\ risk_level # None

TheQuery == input_df(hour, is_weekend, DEFAULT_LAT, DEFAULT_LON, VICT_AGE_DEFAULT)

\* C1: whenever the inference engine has loaded a bundle written by a
\* training run, every feature name of the bundle's stored feature list is a
\* column of the query record it builds, so the selection by the stored list
\* succeeds.
C1_QueryHoldsStoredFeatures ==
    LoadedRunBundle =>
        UnknownColumns(TheQuery, bundle["features"].val) = {}

\* C2: an assess call that loads the bundle a training run persisted finds
\* every field it reads and does not fail before the scoring step.
C2_LoadFindsEveryField ==
    LoadedRunBundle =>
        /\ MissingKeys(bundle) = {}
        /\ report_pc # "raised"

\* C3: once the training run has saved its bundle, the file holds the fitted
\* category encoder of the run beside the classifier, the feature list and
\* the rule list.
C3_BundleHoldsEncoder ==
    (run_pc = "saved" /\ encoder.fitted) =>
        \E k \in DOMAIN model_file.data :
            /\ model_file.data[k].kind = "label_encoder"
            /\ model_file.data[k].val = encoder

\* C4: the tier of a scored call is HIGH iff p > 0.6, MODERATE iff
\* 0.3 < p <= 0.6 and LOW iff p <= 0.3, p = 0.6 gives MODERATE, and exactly
\* one tier is assigned.
C4_TierThresholds ==
    Scored =>
        /\ risk_level \in {"HIGH", "MODERATE", "LOW"}
        /\ (risk_level = "HIGH") <=> (TENTHS * risk_prob > HIGH_TENTHS * ProbDen)
        /\ (risk_level = "MODERATE") <=>
              /\ TENTHS * risk_prob > MODERATE_TENTHS * ProbDen
              /\ TENTHS * risk_prob <= HIGH_TENTHS * ProbDen
        /\ (risk_level = "LOW") <=> (TENTHS * risk_prob <= MODERATE_TENTHS * ProbDen)
        /\ (TENTHS * risk_prob = HIGH_TENTHS * ProbDen) => risk_level = "MODERATE"

C4_Witness ==
    /\ Scored
    /\ TENTHS * risk_prob = HIGH_TENTHS * ProbDen
    /\ risk_level = "MODERATE"

\* C5, as claimed: a probability of exactly 0.3 is bucketed into MODERATE.
C5_ThreeTenthsModerate ==
    (Scored /\ TENTHS * risk_prob = MODERATE_TENTHS * ProbDen) =>
        risk_level = "MODERATE"

\* C5, amended: a probability of exactly 0.3 is bucketed into LOW, MODERATE
\* starting strictly above 0.3.
C5_ThreeTenthsLow ==
    (Scored /\ TENTHS * risk_prob = MODERATE_TENTHS * ProbDen) =>
        risk_level = "LOW"

C5_Witness ==
    /\ Scored
    /\ TENTHS * risk_prob = MODERATE_TENTHS * ProbDen
    /\ risk_level = "LOW"

\* C6: an inference call never observes a partially written bundle file:
\* what it opens is a complete pickle, so loading never fails on a
\* truncated one.
C6_NeverPartialBundle ==
    /\ report_pc = "opening" => model_file.written = NChunks
    /\ exception # "UnpicklingError"


\* the catalogue entries C7 names, written out
NightEntries ==
    << <<"HIGH_RISK_TIME_NIGHT", 1>>, <<"HIGH_RISK_TIME_NIGHT", 2>>,
       <<"HIGH_RISK_TIME_NIGHT", 3>> >>
TheftAndAssaultEntries ==
    << <<"THEFT/ROBBERY", 1>>, <<"THEFT/ROBBERY", 2>>, <<"ASSAULT/VIOLENCE", 1>> >>

\* C7: when the tier is HIGH the printed list is exactly all night-time
\* catalogue entries (present iff hour >= 18 or hour <= 5), then the first
\* two theft/robbery entries, then the first assault/violence entry.
C7_HighTierList ==
    (Scored /\ risk_level = "HIGH") =>
        /\ (hour >= NIGHT_FROM \/ hour <= NIGHT_UNTIL) =>
              printed = NightEntries \o TheftAndAssaultEntries
        /\ (NIGHT_UNTIL < hour /\ hour < NIGHT_FROM) =>
              printed = TheftAndAssaultEntries

C7_Witness ==
    /\ Scored
    /\ risk_level = "HIGH"
    /\ hour = 23
    /\ is_weekend
    /\ Len(printed) = 6
    /\ printed[1] = <<"HIGH_RISK_TIME_NIGHT", 1>>

\* C8, as claimed: when the tier is MODERATE or LOW the printed list is the
\* routine-patrol message and nothing else.
C8_SingleRoutineLine ==
    (Scored /\ risk_level \in {"MODERATE", "LOW"}) =>
        /\ Len(printed) = 1
        /\ printed[1] = ROUTINE_PATROLS

\* C8, amended: when the tier is MODERATE or LOW the printed list is exactly
\* two lines, the routine-patrol message followed by the standard-visibility
\* message, whatever the hour and the weekend flag.
C8_TwoRoutineLines ==
    (Scored /\ risk_level \in {"MODERATE", "LOW"}) =>
        /\ Len(printed) = 2
        /\ printed[1] = ROUTINE_PATROLS
        /\ printed[2] = SEE_SOMETHING

C8_Witness ==
    /\ Scored
    /\ risk_level = "LOW"
    /\ hour = 10
    /\ ~is_weekend
    /\ TENTHS * risk_prob = ProbDen
    /\ printed = <<ROUTINE_PATROLS, SEE_SOMETHING>>

\* the call is over, by a return or by an exception
Ended == report_pc \in {"returned", "raised"}

C10_MissingBundleFails ==
    (Ended /\ ~model_file.exists) =>
        /\ report_pc = "raised"
        /\ exception # None
        /\ DOMAIN bundle = {}
        /\ risk_level = None
        /\ printed = <<>>

\* C10, amended: with no bundle file the call loads and scores nothing, prints
\* the model-file-not-found error and returns normally to its caller, no
\* exception raised, at once and without any recommendation.
C10_MissingBundleReported ==
    (report_pc # "idle" /\ ~model_file.exists) =>
        /\ report_pc = "returned"
        /\ error_line = "Model file not found"
        /\ exception = None
        /\ DOMAIN bundle = {}
        /\ risk_prob = -1
        /\ risk_level = None
        /\ printed = <<>>

C10_Witness ==
    /\ report_pc = "returned"
    /\ ~model_file.exists
    /\ error_line = "Model file not found"
    /\ run_pc = "derived"


(***************************************************************************)
(* model.py:193-246, generate_prescriptive_rules.  A dataset is a sequence *)
(* of rows; a row gives the value of each column the rules read, NA for a  *)
(* column the dataset lacks.  HIGH_RISK is 0 or 1.  Means are kept as      *)
(* pairs <<sum, count>> and compared by cross-multiplication.              *)
(***************************************************************************)
\* rows of a dataset in the model
MaxRows == 3
\* a dataset of at most one of the columns the rules use is followed
\* ExtraRows rows further
ExtraRows == 1

\* model.py:236, head(3)
TOP_N == 3
\* model.py:215, quantile(0.75), as a fraction
QUANTILE_NUM == 3
QUANTILE_DEN == 4
\* model.py:227, weekday_risk * 1.1, as a fraction
SKEW_NUM == 11
SKEW_DEN == 10

NA == "NA"
NAInt == -1

\* preprocess.py:113, HIGH_RISK = SEVERITY_SCORE >= 2
HIGH_RISK_FROM == 2
\* preprocess.py:45, clip(0, 23)
LAST_HOUR == 23

\* the columns generate_prescriptive_rules tests for
RuleColumns == {"CRIME_CATEGORY", "HOUR", "IS_WEEKEND"}

\* the values a row of the model takes
RowCategories == {"THEFT/ROBBERY", "ASSAULT/VIOLENCE", "DRUG-RELATED", "OTHER"}
RowHours == {2, 13, 22}

Rows(columns) ==
    [CRIME_CATEGORY : IF "CRIME_CATEGORY" \in columns THEN RowCategories ELSE {NA},
     HOUR : IF "HOUR" \in columns THEN RowHours ELSE {NAInt},
     IS_WEEKEND : IF "IS_WEEKEND" \in columns THEN {0, 1} ELSE {NAInt},
     HIGH_RISK : {0, 1}]

\* position of a label in Python's string order
CatRank(c) == CHOOSE i \in DOMAIN CategoryOrder : CategoryOrder[i] = c

\* the ascending sequence of a finite set of integers: sorted(...)
SortAsc(S) ==
    CHOOSE q \in [1..Cardinality(S) -> S] :
        \A i, j \in 1..Cardinality(S) : i < j => q[i] < q[j]

\* df.groupby(col)["HIGH_RISK"]: the keys, and the sum and count of a group
GroupKeys(d, col) == {d[i][col] : i \in DOMAIN d}
GroupCount(d, col, k) == Cardinality({i \in DOMAIN d : d[i][col] = k})
GroupSum(d, col, k) ==
    Cardinality({i \in DOMAIN d : d[i][col] = k /\ d[i].HIGH_RISK = 1})
GroupMean(d, col, k) == <<GroupSum(d, col, k), GroupCount(d, col, k)>>

\* a < b for two means <<sum, count>> with count > 0
MeanLess(a, b) == a[1] * b[2] < b[1] * a[2]

\* f"{x*100:.1f}": tenths of a percent, rounded to the nearest
Pct1(m) == IF m[2] = 0 THEN NAInt ELSE (2000 * m[1] + m[2]) \div (2 * m[2])

\* the dict appended to `rules`; `finding` is the wording with the values
\* formatted into it
Finding(text, category, hours, numbers, priority, prescriptions) ==
    [finding |-> [text |-> text, category |-> category, hours |-> hours,
                  numbers |-> numbers],
     priority |-> priority,
     prescriptions |-> prescriptions]

\* a lookup that finds nothing
prescriptions_get_nothing(key) == <<>>

\* PRESCRIPTIONS.get(key, [])
prescriptions_get(key) ==
    IF key \in DOMAIN PRESCRIPTIONS THEN PRESCRIPTIONS[key] ELSE <<>>

\* idxmax over groups kept in the order their first rows appear
idxmax_first_row(d) ==
    LET keys == GroupKeys(d, "CRIME_CATEGORY")
        best == {k \in keys : \A j \in keys :
                    ~MeanLess(GroupMean(d, "CRIME_CATEGORY", k),
                              GroupMean(d, "CRIME_CATEGORY", j))}
        first(k) == CHOOSE i \in DOMAIN d :
                       /\ d[i].CRIME_CATEGORY = k
                       /\ \A j \in DOMAIN d : d[j].CRIME_CATEGORY = k => i <= j
    IN  CHOOSE k \in best : \A j \in best : first(k) <= first(j)

\* model.py:204, idxmax over the groups, which groupby keeps sorted by key:
\* the first key in that order whose mean is the maximum
idxmax(d) ==
    LET keys == GroupKeys(d, "CRIME_CATEGORY")
        best == {k \in keys : \A j \in keys :
                    ~MeanLess(GroupMean(d, "CRIME_CATEGORY", k),
                              GroupMean(d, "CRIME_CATEGORY", j))}
    IN  CHOOSE k \in best : \A j \in best : CatRank(k) <= CatRank(j)

\* model.py:202-210, rule 1; idxmax raises ValueError on an empty Series
rule1_raises(columns, d) == "CRIME_CATEGORY" \in columns /\ Len(d) = 0

\* one finding for each category at the maximum
rule1_every_best(columns, d) ==
    IF "CRIME_CATEGORY" \in columns
    THEN LET keys == GroupKeys(d, "CRIME_CATEGORY")
             best == {k \in keys : \A j \in keys :
                         ~MeanLess(GroupMean(d, "CRIME_CATEGORY", k),
                                   GroupMean(d, "CRIME_CATEGORY", j))}
             order == SortAsc({CatRank(k) : k \in best})
         IN  [i \in DOMAIN order |->
                 Finding("has the highest risk rate", CategoryOrder[order[i]], <<>>,
                         <<Pct1(GroupMean(d, "CRIME_CATEGORY", CategoryOrder[order[i]]))>>,
                         "HIGH", prescriptions_get(CategoryOrder[order[i]]))]
    ELSE <<>>

rule1(columns, d) ==
    IF "CRIME_CATEGORY" \in columns
    THEN LET top_crime == idxmax(d)
         IN  << Finding("has the highest risk rate", top_crime, <<>>,
                        <<Pct1(GroupMean(d, "CRIME_CATEGORY", top_crime))>>,
                        "HIGH", prescriptions_get(top_crime)) >>
    ELSE <<>>


RECURSIVE Factorial(_)
Factorial(n) == IF n <= 1 THEN 1 ELSE n * Factorial(n - 1)

\* model.py:214, the mean of an hour's group on the scale Factorial(Len(d)),
\* on which every mean of the dataset is an integer
HourlyRisk(d, h) ==
    (GroupSum(d, "HOUR", h) * Factorial(Len(d))) \div GroupCount(d, "HOUR", h)

\* the i-th smallest (i from 0) of the hourly means
SortedRisk(d, i) ==
    LET keys == GroupKeys(d, "HOUR")
    IN  CHOOSE v \in {HourlyRisk(d, h) : h \in keys} :
           /\ Cardinality({h \in keys : HourlyRisk(d, h) < v}) <= i
           /\ i < Cardinality({h \in keys : HourlyRisk(d, h) <= v})

\* model.py:215, hourly_risk.quantile(0.75) times QUANTILE_DEN, by linear
\* interpolation between the two order statistics around 0.75 * (n - 1)
QuantileScaled(d) ==
    LET n == Cardinality(GroupKeys(d, "HOUR"))
        p == QUANTILE_NUM * (n - 1)
        lo == p \div QUANTILE_DEN
        r == p % QUANTILE_DEN
        hi == IF r > 0 THEN lo + 1 ELSE lo
    IN  QUANTILE_DEN * SortedRisk(d, lo) + r * (SortedRisk(d, hi) - SortedRisk(d, lo))

\* model.py:215: the hours strictly above the quantile; of no hours, none
\* (the quantile of an empty Series is NaN, above which nothing lies)
hours_at_or_above(d) ==
    IF Len(d) = 0 THEN {}
    ELSE {h \in GroupKeys(d, "HOUR") : QUANTILE_DEN * HourlyRisk(d, h) >= QuantileScaled(d)}

peak_hours(d) ==
    IF Len(d) = 0 THEN {}
    ELSE {h \in GroupKeys(d, "HOUR") : QUANTILE_DEN * HourlyRisk(d, h) > QuantileScaled(d)}

\* a finding only when some hour is above the quantile
rule2_when_peaks(columns, d) ==
    IF "HOUR" \in columns /\ peak_hours(d) # {}
    THEN << Finding("Highest risk hours", NA, SortAsc(peak_hours(d)), <<>>,
                    "HIGH", PRESCRIPTIONS["HIGH_RISK_TIME_NIGHT"]) >>
    ELSE <<>>

\* model.py:212-221, rule 2
rule2(columns, d) ==
    IF "HOUR" \in columns
    THEN << Finding("Highest risk hours", NA, SortAsc(peak_hours(d)), <<>>,
                    "HIGH", PRESCRIPTIONS["HIGH_RISK_TIME_NIGHT"]) >>
    ELSE <<>>

\* model.py:225-226, the mean of HIGH_RISK over the rows with IS_WEEKEND = w
WeekendMean(d, w) == GroupMean(d, "IS_WEEKEND", w)

\* a comparison without the factor 1.1
weekend_higher(d) ==
    LET weekday == WeekendMean(d, 0)
        weekend == WeekendMean(d, 1)
    IN  /\ weekday[2] > 0
        /\ weekend[2] > 0
        /\ weekend[1] * weekday[2] > weekday[1] * weekend[2]

\* model.py:227: weekend_risk > weekday_risk * 1.1; a mean of no rows is NaN
\* and the comparison is then false
weekend_skew(d) ==
    LET weekday == WeekendMean(d, 0)
        weekend == WeekendMean(d, 1)
    IN  /\ weekday[2] > 0
        /\ weekend[2] > 0
        /\ SKEW_DEN * weekend[1] * weekday[2] > SKEW_NUM * weekday[1] * weekend[2]

\* a finding without wording where the column is absent
rule3_blank_when_absent(columns, d) ==
    IF "IS_WEEKEND" \in columns
    THEN IF weekend_skew(d)
         THEN << Finding("Weekend risk is higher than weekday risk", NA, <<>>,
                         <<Pct1(WeekendMean(d, 1)), Pct1(WeekendMean(d, 0))>>,
                         "MEDIUM", PRESCRIPTIONS["HIGH_RISK_WEEKEND"]) >>
         ELSE <<>>
    ELSE << Finding("", NA, <<>>, <<>>, "MEDIUM", PRESCRIPTIONS["HIGH_RISK_WEEKEND"]) >>

\* model.py:223-232, rule 3
rule3(columns, d) ==
    IF "IS_WEEKEND" \in columns /\ weekend_skew(d)
    THEN << Finding("Weekend risk is higher than weekday risk", NA, <<>>,
                    <<Pct1(WeekendMean(d, 1)), Pct1(WeekendMean(d, 0))>>,
                    "MEDIUM", PRESCRIPTIONS["HIGH_RISK_WEEKEND"]) >>
    ELSE <<>>

\* model.py:236, value_counts(): the labels by descending count, equal
\* counts in the order of first appearance; the place of label k, from 0
FirstRow(d, k) ==
    CHOOSE i \in DOMAIN d :
        /\ d[i].CRIME_CATEGORY = k
        /\ \A j \in DOMAIN d : d[j].CRIME_CATEGORY = k => i <= j

CountPlace(d, k) ==
    Cardinality({j \in GroupKeys(d, "CRIME_CATEGORY") :
        \/ GroupCount(d, "CRIME_CATEGORY", j) > GroupCount(d, "CRIME_CATEGORY", k)
        \/ /\ GroupCount(d, "CRIME_CATEGORY", j) = GroupCount(d, "CRIME_CATEGORY", k)
           /\ FirstRow(d, j) < FirstRow(d, k)})

\* the labels of the first two places only
crime_counts_top_two(d) ==
    LET keys == GroupKeys(d, "CRIME_CATEGORY")
        top == {k \in keys : CountPlace(d, k) < TOP_N - 1}
    IN  [i \in 1..Cardinality(top) |-> CHOOSE k \in top : CountPlace(d, k) = i - 1]

\* model.py:236, .head(3): the labels of the first TOP_N places, in order
crime_counts(d) ==
    LET keys == GroupKeys(d, "CRIME_CATEGORY")
        top == {k \in keys : CountPlace(d, k) < TOP_N}
    IN  [i \in 1..Cardinality(top) |-> CHOOSE k \in top : CountPlace(d, k) = i - 1]

\* model.py:241, crime_counts.max()
MaxCount(d) ==
    CHOOSE c \in {GroupCount(d, "CRIME_CATEGORY", k) : k \in GroupKeys(d, "CRIME_CATEGORY")} :
        \A k \in GroupKeys(d, "CRIME_CATEGORY") : GroupCount(d, "CRIME_CATEGORY", k) <= c

\* HIGH for the first label of crime_counts alone
top_crime_finding_first_high(d, crime) ==
    IF crime \in DOMAIN PRESCRIPTIONS
    THEN << Finding("accounts for incidents", crime, <<>>,
                    <<GroupCount(d, "CRIME_CATEGORY", crime)>>,
                    IF CountPlace(d, crime) > 0 THEN "MEDIUM" ELSE "HIGH",
                    PRESCRIPTIONS[crime]) >>
    ELSE <<>>

\* model.py:237-243, the finding of one label of crime_counts, if catalogued
top_crime_finding(d, crime) ==
    IF crime \in DOMAIN PRESCRIPTIONS
    THEN << Finding("accounts for incidents", crime, <<>>,
                    <<GroupCount(d, "CRIME_CATEGORY", crime)>>,
                    IF GroupCount(d, "CRIME_CATEGORY", crime) < MaxCount(d)
                    THEN "MEDIUM" ELSE "HIGH",
                    PRESCRIPTIONS[crime]) >>
    ELSE <<>>

RECURSIVE Rule4From(_, _, _)
Rule4From(d, counts, i) ==
    IF i > Len(counts) THEN <<>>
    ELSE top_crime_finding(d, counts[i]) \o Rule4From(d, counts, i + 1)

\* model.py:234-243, rule 4
rule4(columns, d) ==
    IF "CRIME_CATEGORY" \in columns
    THEN Rule4From(d, crime_counts(d), 1)
    ELSE <<>>

\* the volume rule evaluated first
rules_volume_first(columns, d) ==
    rule4(columns, d) \o rule1(columns, d) \o rule2(columns, d) \o rule3(columns, d)

\* model.py:193-246: the four rules in the order evaluated; the call raises
\* when rule 1 does
generate_prescriptive_rules(columns, d) ==
    rule1(columns, d) \o rule2(columns, d) \o rule3(columns, d) \o rule4(columns, d)

(***************************************************************************)
(* generate_prescriptive_rules followed on its own: the dataset is built   *)
(* row by row over any subset of the columns the rules use, and the        *)
(* function is then called on it once.                                     *)
(***************************************************************************)
pipeline_idle ==
    /\ df_categories = {}
    /\ y_nunique = 0
    /\ run_pc = "start"
    /\ features = <<>>
    /\ encoder = NoEncoder
    /\ model_file = NoFile
    /\ report_pc = "idle"
    /\ hour = 0
    /\ is_weekend = FALSE
    /\ bundle = NoBundle
    /\ risk_prob = -1
    /\ risk_level = None
    /\ printed = <<>>
    /\ error_line = None
    /\ exception = None

pipeline_vars == <<df_columns, df_categories, y_nunique, run_pc, features,
                   encoder, model_file, report_vars>>

InitDerive ==
    /\ pipeline_idle
    /\ df_columns \in SUBSET RuleColumns
    /\ dataset = <<>>
    /\ derive_pc = "building"
    /\ rules = <<>>
    /\ pre_off
    /\ live_off
    /\ age_off

RowLimit(columns) ==
    MaxRows + (IF Cardinality(columns) <= 1 THEN ExtraRows ELSE 0)

derive_add_row ==
    /\ derive_pc = "building"
    /\ Len(dataset) < RowLimit(df_columns)
    /\ \E row \in Rows(df_columns) : dataset' = Append(dataset, row)
    /\ UNCHANGED <<derive_pc, rules>>
    /\ UNCHANGED pipeline_vars
    /\ UNCHANGED <<pre_vars, live_vars, age_vars>>

derive_call ==
    /\ derive_pc = "building"
    /\ IF rule1_raises(df_columns, dataset)
       THEN /\ derive_pc' = "ValueError"
            /\ rules' = <<>>
       ELSE /\ derive_pc' = "returned"
            /\ rules' = generate_prescriptive_rules(df_columns, dataset)
    /\ UNCHANGED dataset
    /\ UNCHANGED pipeline_vars
    /\ UNCHANGED <<pre_vars, live_vars, age_vars>>

NextDerive ==
    \/ derive_add_row
    \/ derive_call

SpecDerive == InitDerive /\ [][NextDerive]_vars

(***************************************************************************)
(* Properties of generate_prescriptive_rules, under SpecDerive.            *)
(***************************************************************************)
Derived == derive_pc = "returned"

DOMINANT == "has the highest risk rate"
PEAK == "Highest risk hours"
WEEKEND == "Weekend risk is higher than weekday risk"
VOLUME == "accounts for incidents"

FindingsOf(text) == {i \in DOMAIN rules : rules[i].finding.text = text}

\* C13: every sequence generate_prescriptive_rules returns has between 0
\* and 6 findings.
C13_AtMostSixFindings == Derived => Len(rules) \in 0..6

\* a call that returned six findings: one of each of the first three rules
\* and three of the volume rule
C13_Witness ==
    /\ Derived
    /\ Len(rules) = 6
    /\ Cardinality(FindingsOf(VOLUME)) = 3

\* C14: generate_prescriptive_rules never raises, whatever the dataset: with
\* zero rows, with no weekend or no weekday rows, or lacking columns.
C14_DeriveNeverRaises == derive_pc # "ValueError"

\* the dataset with the column IS_WEEKEND added, holding w[i] in row i
with_weekend(d, w) == [i \in DOMAIN d |-> [d[i] EXCEPT !.IS_WEEKEND = w[i]]]

without_weekend_finding(rs) ==
    LET other(f) == f.finding.text # WEEKEND
    IN  SelectSeq(rs, other)

\* C15: for a dataset without the column IS_WEEKEND the findings returned
\* are those of the dominant-category, peak-hour and volume rules, the same
\* as for the same rows with any IS_WEEKEND column added, and no finding of
\* the weekend rule, worded or not, is among them.
C15_WeekendColumnOnlyAddsWeekendFinding ==
    (Derived /\ "IS_WEEKEND" \notin df_columns) =>
        /\ \A i \in DOMAIN rules : rules[i].finding.text \in {DOMINANT, PEAK, VOLUME}
        /\ \A w \in [DOMAIN dataset -> {0, 1}] :
              without_weekend_finding(
                  generate_prescriptive_rules(df_columns \cup {"IS_WEEKEND"},
                                              with_weekend(dataset, w))) = rules

\* a returned call on a dataset without IS_WEEKEND whose rows, given a
\* weekend column, do yield the weekend finding
C15_Witness ==
    /\ Derived
    /\ df_columns = {"CRIME_CATEGORY", "HOUR"}
    /\ FindingsOf(DOMINANT) # {} /\ FindingsOf(PEAK) # {} /\ FindingsOf(VOLUME) # {}
    /\ \E w \in [DOMAIN dataset -> {0, 1}] :
          \E f \in {generate_prescriptive_rules(df_columns \cup {"IS_WEEKEND"},
                                                with_weekend(dataset, w))} :
              \E i \in DOMAIN f : f[i].finding.text = WEEKEND

\* the catalogue key a finding's prescriptions are looked up under: its
\* category, or the tag of its rule
CatalogueKey(f) ==
    CASE f.finding.text = PEAK    -> "HIGH_RISK_TIME_NIGHT"
      [] f.finding.text = WEEKEND -> "HIGH_RISK_WEEKEND"
      [] OTHER                    -> f.finding.category

\* C16: in every finding returned, the prescriptions are non-empty when the
\* finding's category or tag is a key of PRESCRIPTIONS, and the empty list
\* when it is not.
C16_PrescriptionsIffCatalogued ==
    Derived =>
        \A i \in DOMAIN rules :
            (rules[i].prescriptions # <<>>) <=> (CatalogueKey(rules[i]) \in DOMAIN PRESCRIPTIONS)

\* a returned call whose dominant category is OTHER, with no prescriptions,
\* next to findings that have some
C16_Witness ==
    /\ Derived
    /\ \E i \in FindingsOf(DOMINANT) :
          rules[i].finding.category = "OTHER" /\ rules[i].prescriptions = <<>>
    /\ \E i \in FindingsOf(VOLUME) : rules[i].prescriptions # <<>>
    /\ FindingsOf(PEAK) # {}

\* the categories of the dataset whose high-risk fraction is the maximum
AtMaximum(d) ==
    {k \in GroupKeys(d, "CRIME_CATEGORY") :
        \A j \in GroupKeys(d, "CRIME_CATEGORY") :
            GroupSum(d, "CRIME_CATEGORY", j) * GroupCount(d, "CRIME_CATEGORY", k)
               <= GroupSum(d, "CRIME_CATEGORY", k) * GroupCount(d, "CRIME_CATEGORY", j)}

\* C20 as stated: the dominant-category finding, one and of priority HIGH,
\* names a category at the maximum high-risk fraction, and among several at
\* the maximum the one whose first row comes earliest in the dataset.
C20_TieToFirstEncountered ==
    (Derived /\ "CRIME_CATEGORY" \in df_columns) =>
        /\ Cardinality(FindingsOf(DOMINANT)) = 1
        /\ \A i \in FindingsOf(DOMINANT) :
              /\ rules[i].priority = "HIGH"
              /\ rules[i].finding.category \in AtMaximum(dataset)
              /\ \A j \in AtMaximum(dataset) :
                    FirstRow(dataset, rules[i].finding.category) <= FirstRow(dataset, j)

\* C20: on a dataset with a category column and at least one row the
\* dominant-category finding, one and of priority HIGH, names a category at
\* the maximum high-risk fraction, and among several at the maximum the one
\* whose label is first in sorted order; on a dataset with that column and
\* no row the call raises ValueError and returns no finding.
C20_TieToFirstSortedLabel ==
    /\ (Derived /\ "CRIME_CATEGORY" \in df_columns) =>
          /\ Len(dataset) > 0
          /\ Cardinality(FindingsOf(DOMINANT)) = 1
          /\ \A i \in FindingsOf(DOMINANT) :
                /\ rules[i].priority = "HIGH"
                /\ rules[i].finding.category \in AtMaximum(dataset)
                /\ \A j \in AtMaximum(dataset) :
                      CatRank(rules[i].finding.category) <= CatRank(j)
    /\ derive_pc = "ValueError" =>
          "CRIME_CATEGORY" \in df_columns /\ Len(dataset) = 0 /\ rules = <<>>

\* a returned call on a dataset where two categories are at the maximum and
\* the one named is not the one met first
C20_Witness ==
    /\ Derived
    /\ "CRIME_CATEGORY" \in df_columns
    /\ Cardinality(AtMaximum(dataset)) > 1
    /\ \E i \in FindingsOf(DOMINANT) :
          dataset[1].CRIME_CATEGORY \in AtMaximum(dataset) \ {rules[i].finding.category}

(***************************************************************************)
(* Properties of the training run and of the report call, under Spec.      *)
(***************************************************************************)
\* C12: when HIGH_RISK has fewer than two distinct values train_model raises
\* the label error at its first step, before the split and the fit: the run
\* never gets to a fitted model and writes no bundle, and the error is raised
\* for no other dataset.
C12_LabelCheckBeforeFit ==
    /\ y_nunique < 2 =>
          /\ run_pc \in {"start", "prepared", "ValueError"}
          /\ model_file.writer # "run"
    /\ run_pc = "ValueError" => y_nunique < 2

\* a run stopped by the label error after the features were prepared
C12_Witness ==
    /\ run_pc = "ValueError"
    /\ y_nunique < 2
    /\ features # <<>>
    /\ model_file.writer # "run"

\* C19: a query hour outside 0..23 is not rejected and is clipped into 0..23,
\* so the hour field of the record scored is always within 0..23.
C19_EncodedHourWithinDay ==
    Scored => TheQuery["hour"] \in 0..23

(***************************************************************************)
(* preprocess.py:31-140, preprocess and run, followed for one row of the   *)
(* raw file.                                                               *)
(***************************************************************************)
\* column names of the raw file, as the crime-data export spells them
RawNames == {"TIME OCC", "DATE OCC", "Vict Age", "Crm Cd Desc", "Premis Desc"}

\* preprocess.py:35: strip, lower-case, blanks to underscores
normalise(name) ==
    CASE name = "TIME OCC"    -> "time_occ"
      [] name = "DATE OCC"    -> "date_occ"
      [] name = "Vict Age"    -> "vict_age"
      [] name = "Crm Cd Desc" -> "crm_cd_desc"
      [] name = "Premis Desc" -> "premis_desc"

\* preprocess.py:81-89, the keyword lists, in the order tested
KeywordGroups ==
    << [words |-> {"THEFT", "BURGLARY", "STOLEN", "ROBBERY", "PICKPOCKET"},
        category |-> "THEFT/ROBBERY"],
       [words |-> {"ASSAULT", "BATTERY", "FIGHT", "ATTACK", "AGGRAVATED"},
        category |-> "ASSAULT/VIOLENCE"],
       [words |-> {"SEX", "RAPE", "HARASS", "MOLEST", "INDECENT"},
        category |-> "SEXUAL HARASSMENT/ASSAULT"],
       [words |-> {"VANDAL", "DAMAGE", "TRESPASS", "GRAFFITI"},
        category |-> "VANDALISM/TRESPASSING"],
       [words |-> {"DRUG", "NARCO", "SUBSTANCE"},
        category |-> "DRUG-RELATED"] >>

\* a description is the set of words found in its text, or not a string
DescWords == {"THEFT", "BATTERY", "HARASS", "GRAFFITI", "NARCO", "FRAUD"}
NotAString == [is_str |-> FALSE, words |-> {}]
Descriptions == {[is_str |-> TRUE, words |-> ws] : ws \in SUBSET DescWords} \cup {NotAString}

\* preprocess.py:77-92
map_crime_category(desc) ==
    IF ~desc.is_str THEN "OTHER"
    ELSE LET hits == {i \in DOMAIN KeywordGroups : KeywordGroups[i].words \cap desc.words # {}}
         IN  IF hits = {} THEN "OTHER"
             ELSE KeywordGroups[CHOOSE i \in hits : \A j \in hits : i <= j].category

\* preprocess.py:101-109
severity_map ==
    [c \in Categories |->
        CASE c = "THEFT/ROBBERY" -> 2
          [] c = "ASSAULT/VIOLENCE" -> 3
          [] c = "SEXUAL HARASSMENT/ASSAULT" -> 3
          [] c = "VANDALISM/TRESPASSING" -> 1
          [] c = "DRUG-RELATED" -> 2
          [] c = "OTHER" -> 1
          [] c = "UNKNOWN" -> 1]

\* preprocess.py:110, Series.map: a label the dict lacks maps to NaN
severity_of(category) ==
    IF category \in DOMAIN severity_map THEN severity_map[category] ELSE NAInt

\* a flag raised only above the threshold
high_risk_above(severity) == IF severity > HIGH_RISK_FROM THEN 1 ELSE 0

\* preprocess.py:113
high_risk_of(severity) == IF severity >= HIGH_RISK_FROM THEN 1 ELSE 0

\* preprocess.py:45: (TIME_OCC // 100).clip(0, 23)
hour_of(time_occ) ==
    IF time_occ \div 100 > LAST_HOUR THEN LAST_HOUR
    ELSE IF time_occ \div 100 < 0 THEN 0 ELSE time_occ \div 100

\* the values of a raw row: military time, whether the date falls on a
\* Saturday or Sunday, the crime description
TimesOcc == {1345, 2400}

RawRows(columns) ==
    [time_occ : IF "TIME OCC" \in columns THEN TimesOcc ELSE {NAInt},
     on_weekend : IF "DATE OCC" \in columns THEN BOOLEAN ELSE {FALSE},
     desc : IF "Crm Cd Desc" \in columns THEN Descriptions ELSE {NotAString}]

\* preprocess.py:64, len(campus_df) < 1000
CAMPUS_MIN == 1000
CampusRowCounts == {0, CAMPUS_MIN - 1, CAMPUS_MIN}

NoRecord ==
    [HOUR |-> NAInt, IS_WEEKEND |-> NAInt, IS_CAMPUS_SPECIFIC |-> NAInt,
     CRIME_CATEGORY |-> NA, SEVERITY_SCORE |-> NAInt, HIGH_RISK |-> NAInt]

InitPre ==
    /\ pipeline_idle
    /\ df_columns = {}
    /\ derive_off
    /\ live_off
    /\ age_off
    /\ raw_columns \in SUBSET RawNames
    /\ raw_campus_rows \in (IF "Premis Desc" \in raw_columns THEN CampusRowCounts ELSE {0})
    /\ raw_row \in RawRows(raw_columns)
    /\ pre_pc = "loaded"
    /\ frame_columns = raw_columns
    /\ record = NoRecord

\* preprocess.py:35
pre_normalise ==
    /\ pre_pc = "loaded"
    /\ frame_columns' = {normalise(c) : c \in frame_columns}
    /\ pre_pc' = "normalised"
    /\ UNCHANGED <<raw_columns, raw_campus_rows, raw_row, record, df_columns>>
    /\ UNCHANGED <<df_categories, y_nunique, run_pc, features, encoder, model_file>>
    /\ UNCHANGED <<report_vars, derive_vars, live_vars, age_vars>>

\* preprocess.py:43-55, in the first pass of the loop of line 38: the hour
\* and the weekend flag, each under a test for an upper-case column name.
\* DATE_OCC, if there, is not among the columns line 38 parses, and .dt on
\* an unparsed column raises AttributeError.
pre_time_features ==
    /\ pre_pc = "normalised"
    /\ LET timed == "TIME_OCC" \in frame_columns
           dated == "DATE_OCC" \in frame_columns
       IN  /\ record' = [record EXCEPT
                            !.HOUR = IF timed THEN hour_of(raw_row.time_occ) ELSE @]
           /\ frame_columns' = frame_columns
                                 \cup (IF timed THEN {"HOUR", "TIME_CATEGORY"} ELSE {})
           /\ pre_pc' = IF dated THEN "AttributeError" ELSE "timed"
    /\ UNCHANGED <<raw_columns, raw_campus_rows, raw_row, df_columns>>
    /\ UNCHANGED <<df_categories, y_nunique, run_pc, features, encoder, model_file>>
    /\ UNCHANGED <<report_vars, derive_vars, live_vars, age_vars>>

\* preprocess.py:58-73: the campus filter keeps the campus rows and flags
\* them 1 when there are at least 1000, and otherwise keeps every row and
\* flags it 0; the flag is one value assigned to the whole column, and the
\* row followed is one that is kept
pre_campus ==
    /\ pre_pc = "timed"
    /\ IF "PREMIS_DESC" \in frame_columns
       THEN record' = [record EXCEPT !.IS_CAMPUS_SPECIFIC =
                          IF raw_campus_rows < CAMPUS_MIN THEN 0 ELSE 1]
       ELSE record' = [record EXCEPT !.IS_CAMPUS_SPECIFIC = 0]
    /\ frame_columns' = frame_columns \cup {"IS_CAMPUS_SPECIFIC"}
    /\ pre_pc' = "filtered"
    /\ UNCHANGED <<raw_columns, raw_campus_rows, raw_row, df_columns>>
    /\ UNCHANGED <<df_categories, y_nunique, run_pc, features, encoder, model_file>>
    /\ UNCHANGED <<report_vars, derive_vars, live_vars, age_vars>>

\* preprocess.py:94-98
pre_category ==
    /\ pre_pc = "filtered"
    /\ record' = [record EXCEPT !.CRIME_CATEGORY =
                     IF "crm_cd_desc" \in frame_columns
                     THEN map_crime_category(raw_row.desc)
                     ELSE "UNKNOWN"]
    /\ frame_columns' = frame_columns \cup {"CRIME_CATEGORY"}
    /\ pre_pc' = "categorised"
    /\ UNCHANGED <<raw_columns, raw_campus_rows, raw_row, df_columns>>
    /\ UNCHANGED <<df_categories, y_nunique, run_pc, features, encoder, model_file>>
    /\ UNCHANGED <<report_vars, derive_vars, live_vars, age_vars>>

\* preprocess.py:101-113
pre_severity ==
    /\ pre_pc = "categorised"
    /\ record' = [record EXCEPT
                     !.SEVERITY_SCORE = severity_of(record.CRIME_CATEGORY),
                     !.HIGH_RISK = high_risk_of(severity_of(record.CRIME_CATEGORY))]
    /\ frame_columns' = frame_columns \cup {"SEVERITY_SCORE", "HIGH_RISK"}
    /\ pre_pc' = "returned"
    /\ UNCHANGED <<raw_columns, raw_campus_rows, raw_row, df_columns>>
    /\ UNCHANGED <<df_categories, y_nunique, run_pc, features, encoder, model_file>>
    /\ UNCHANGED <<report_vars, derive_vars, live_vars, age_vars>>

\* preprocess.py:136 and model.py:69: the frame is written to
\* kaggle_clean.csv, which load_data reads back with the same column names
pre_to_csv ==
    /\ pre_pc = "returned"
    /\ df_columns' = frame_columns
    /\ pre_pc' = "saved"
    /\ UNCHANGED <<raw_columns, raw_campus_rows, raw_row, frame_columns, record>>
    /\ UNCHANGED <<df_categories, y_nunique, run_pc, features, encoder, model_file>>
    /\ UNCHANGED <<report_vars, derive_vars, live_vars, age_vars>>

NextPre ==
    \/ pre_normalise
    \/ pre_time_features
    \/ pre_campus
    \/ pre_category
    \/ pre_severity
    \/ pre_to_csv

SpecPre == InitPre /\ [][NextPre]_vars

(***************************************************************************)
(* Properties of preprocessing, under SpecPre.                             *)
(***************************************************************************)
Preprocessed == pre_pc \in {"returned", "saved"}

\* the score of each category
SeverityByCategory(c) ==
    CASE c \in {"ASSAULT/VIOLENCE", "SEXUAL HARASSMENT/ASSAULT"} -> 3
      [] c \in {"THEFT/ROBBERY", "DRUG-RELATED"} -> 2
      [] OTHER -> 1

\* C17: in every record preprocess produces, SEVERITY_SCORE is within 1..3
\* and is the value of its CRIME_CATEGORY alone, HIGH_RISK is 1 exactly when
\* SEVERITY_SCORE >= 2 and 0 otherwise, and no earlier step sets HIGH_RISK.
C17_HighRiskFromSeverity ==
    /\ Preprocessed =>
          /\ record.CRIME_CATEGORY \in Categories
          /\ record.SEVERITY_SCORE \in 1..3
          /\ record.SEVERITY_SCORE = SeverityByCategory(record.CRIME_CATEGORY)
          /\ record.HIGH_RISK \in {0, 1}
          /\ record.HIGH_RISK = 1 <=> record.SEVERITY_SCORE >= 2
    /\ ~Preprocessed => record.HIGH_RISK = NAInt

\* a preprocessed record of a theft: severity 2, high risk; the description
\* also names a drug, and theft is tested first
C17_Witness ==
    /\ Preprocessed
    /\ {"THEFT", "NARCO"} \subseteq raw_row.desc.words
    /\ record.CRIME_CATEGORY = "THEFT/ROBBERY"
    /\ record.SEVERITY_SCORE = 2
    /\ record.HIGH_RISK = 1

\* C18: when the raw file has the occurrence-time, occurrence-date and
\* victim-age columns, the dataset the trainer loads has the columns HOUR
\* (within 0..23), IS_WEEKEND and VICT_AGE under these names, and
\* prepare_features puts all of them in the feature list.
C18_TrainerFindsTimeAndAge ==
    (pre_pc = "saved" /\ {"TIME OCC", "DATE OCC", "Vict Age"} \subseteq raw_columns) =>
        /\ {"HOUR", "IS_WEEKEND", "VICT_AGE"} \subseteq df_columns
        /\ record.HOUR \in 0..23
        /\ \A f \in {"HOUR", "HOUR_SIN", "HOUR_COS", "IS_WEEKEND", "VICT_AGE"} :
              \E i \in DOMAIN prepare_features(df_columns) :
                  prepare_features(df_columns)[i] = f

(***************************************************************************)
(* main.py:44-68, live_mode.  What is typed at a prompt is a token: the    *)
(* word exit, some other text that is no number, nothing at all, or a      *)
(* number.                                                                 *)
(***************************************************************************)
Exit == [kind |-> "exit", val |-> 0]
Text == [kind |-> "text", val |-> 0]
Empty == [kind |-> "empty", val |-> 0]
Number(n) == [kind |-> "number", val |-> n]

HourTokens == {Exit, Text, Empty} \cup {Number(h) : h \in Hours}
\* main.py:56-57: 'y' is a weekend, any other answer is not
WeekendTokens == {"y", "n", "exit"}
\* main.py:61-62: the value typed does not bear on what is followed of the
\* report, whose classifier may give any probability
FloatTokens == {Exit, Text, Empty, Number(0)}

INVALID_INPUT == "Invalid input. Please enter numbers only."

\* int(...) and float(...) raise ValueError on anything but a number; an
\* empty answer to a float prompt is replaced by the default first
int_raises(token) == token.kind # "number"
float_raises(token) == token.kind \notin {"number", "empty"}

\* the bundle a training run started in src/ left at the path the report
\* reads (run from the project root, model.py:17 names another directory)
RunBundleFile ==
    [exists |-> TRUE,
     data |-> dumped_bundle(prepare_features(OptionalColumns),
                            category_encoder(OptionalColumns, Categories)),
     written |-> NChunks, writer |-> "run"]

\* live_mode is entered after the pipeline of main.py:18-34 has ended
InitLive ==
    /\ df_columns = {}
    /\ df_categories = {}
    /\ y_nunique = 0
    /\ run_pc = "start"
    /\ features = <<>>
    /\ encoder = NoEncoder
    /\ model_file \in
          {NoFile, RunBundleFile,
           [exists |-> TRUE, data |-> ReportBundle, written |-> NChunks,
            writer |-> "earlier"]}
    /\ report_pc = "idle"
    /\ hour = 0
    /\ is_weekend = FALSE
    /\ bundle = NoBundle
    /\ risk_prob = -1
    /\ risk_level = None
    /\ printed = <<>>
    /\ error_line = None
    /\ exception = None
    /\ derive_off
    /\ pre_off
    /\ live_pc = "hour_prompt"
    /\ live_hour = 0
    /\ live_weekend = FALSE
    /\ live_said = None
    /\ live_typed = None
    /\ age_off

live_frame == <<run_vars, model_file, report_vars, derive_vars, pre_vars, age_vars>>

\* main.py:48-55 and 67-68: the hour prompt, the test for exit, int()
live_hour_prompt ==
    /\ live_pc = "hour_prompt"
    /\ \E token \in HourTokens :
        /\ live_typed' = token.kind
        /\ IF token = Exit
           THEN /\ live_pc' = "exited"
                /\ UNCHANGED <<live_hour, live_said>>
           ELSE IF int_raises(token)
           THEN /\ live_said' = INVALID_INPUT
                /\ live_pc' = "hour_prompt"
                /\ UNCHANGED live_hour
           ELSE /\ live_hour' = token.val
                /\ live_said' = None
                /\ live_pc' = "weekend_prompt"
    /\ UNCHANGED live_weekend
    /\ UNCHANGED live_frame

\* main.py:56-57
live_weekend_prompt ==
    /\ live_pc = "weekend_prompt"
    /\ \E day_type \in WeekendTokens :
          /\ live_weekend' = (day_type = "y")
          /\ live_typed' = day_type
    /\ live_pc' = "lat_prompt"
    /\ UNCHANGED <<live_hour, live_said>>
    /\ UNCHANGED live_frame

\* main.py:61 and 67-68
live_lat_prompt ==
    /\ live_pc = "lat_prompt"
    /\ \E token \in FloatTokens :
        /\ live_typed' = token.kind
        /\ IF float_raises(token)
           THEN /\ live_said' = INVALID_INPUT
                /\ live_pc' = "hour_prompt"
           ELSE /\ live_pc' = "lon_prompt"
                /\ UNCHANGED live_said
    /\ UNCHANGED <<live_hour, live_weekend>>
    /\ UNCHANGED live_frame

\* main.py:62 and 67-68
live_lon_prompt ==
    /\ live_pc = "lon_prompt"
    /\ \E token \in FloatTokens :
        /\ live_typed' = token.kind
        /\ IF float_raises(token)
           THEN /\ live_said' = INVALID_INPUT
                /\ live_pc' = "hour_prompt"
           ELSE /\ live_pc' = "calling"
                /\ UNCHANGED live_said
    /\ UNCHANGED <<live_hour, live_weekend>>
    /\ UNCHANGED live_frame

\* main.py:65, the call; report_load and report_assess carry it on
live_call ==
    /\ live_pc = "calling"
    /\ report_begin(live_hour, live_weekend)
    /\ live_pc' = "in_report"
    /\ UNCHANGED <<live_hour, live_weekend, live_said, live_typed>>
    /\ UNCHANGED <<derive_vars, pre_vars, age_vars>>

\* main.py:65-68 and 47: the call is over.  When it returned the loop goes
\* to its next pass; when it raised, `except ValueError` catches a
\* ValueError alone, and any other exception leaves the loop and the program
live_return ==
    /\ live_pc = "in_report"
    /\ report_pc \in {"returned", "raised"}
    /\ IF report_pc = "returned"
       THEN /\ live_pc' = "hour_prompt"
            /\ UNCHANGED live_said
       ELSE IF exception = "ValueError"
       THEN /\ live_said' = INVALID_INPUT
            /\ live_pc' = "hour_prompt"
       ELSE /\ live_pc' = "crashed"
            /\ UNCHANGED live_said
    /\ report_pc' = "idle"
    /\ UNCHANGED <<hour, is_weekend, bundle, risk_prob, risk_level, printed,
                   error_line, exception>>
    /\ UNCHANGED <<live_hour, live_weekend, live_typed>>
    /\ UNCHANGED <<run_vars, model_file, derive_vars, pre_vars, age_vars>>

NextLive ==
    \/ live_hour_prompt
    \/ live_weekend_prompt
    \/ live_lat_prompt
    \/ live_lon_prompt
    \/ live_call
    \/ report_load
    \/ report_assess
    \/ live_return

SpecLive == InitLive /\ [][NextLive]_vars

\* C11: in the live loop a non-numeric hour, latitude or longitude is
\* reported and the query dropped without a call of the report, the loop
\* going back to the hour prompt; and no failure of a query, in the report
\* included, ends the loop.
C11_NoQueryEndsTheLoop ==
    /\ live_said = INVALID_INPUT =>
          (live_pc \in {"hour_prompt", "exited"} /\ report_pc = "idle")
    /\ live_pc # "crashed"

(***************************************************************************)
(* Properties of the single rules of generate_prescriptive_rules, under    *)
(* SpecDerive.                                                             *)
(***************************************************************************)
\* the number of records of the dataset with category c
RecordsOf(c) == Cardinality({r \in DOMAIN dataset : dataset[r].CRIME_CATEGORY = c})

DatasetCategories == {dataset[r].CRIME_CATEGORY : r \in DOMAIN dataset}

HighVolume == {i \in FindingsOf(VOLUME) : rules[i].priority = "HIGH"}

\* C21 as stated: of the volume findings, the one of the single most
\* frequent category is HIGH and every other is MEDIUM, so at most one is
\* HIGH, also when two of the top categories have equal counts.
C21_OneHighVolumeFinding ==
    Derived =>
        /\ Cardinality(HighVolume) <= 1
        /\ \A i \in FindingsOf(VOLUME) :
              rules[i].priority =
                 IF \A c \in DatasetCategories \ {rules[i].finding.category} :
                        RecordsOf(c) < RecordsOf(rules[i].finding.category)
                 THEN "HIGH" ELSE "MEDIUM"

\* C21: a volume finding is HIGH when no category has more records than
\* its own and MEDIUM otherwise, so that categories tied at the largest
\* count are all HIGH, and none is HIGH when the most frequent category has
\* no catalogue entry.
C21_HighAtLargestCount ==
    Derived =>
        \A i \in FindingsOf(VOLUME) :
            rules[i].priority =
               IF \A c \in DatasetCategories :
                      RecordsOf(c) <= RecordsOf(rules[i].finding.category)
               THEN "HIGH" ELSE "MEDIUM"

\* a returned list with two HIGH volume findings, of categories tied at the
\* largest count
C21_Witness ==
    /\ Derived
    /\ Cardinality(HighVolume) = 2
    /\ \E i, j \in HighVolume :
          /\ i # j
          /\ RecordsOf(rules[i].finding.category) = RecordsOf(rules[j].finding.category)

VolumeCategories == {rules[i].finding.category : i \in FindingsOf(VOLUME)}

DatasetHours == {dataset[r].HOUR : r \in DOMAIN dataset}
HourFraction(h) ==
    << Cardinality({r \in DOMAIN dataset : dataset[r].HOUR = h /\ dataset[r].HIGH_RISK = 1}),
       Cardinality({r \in DOMAIN dataset : dataset[r].HOUR = h}) >>

\* C24: the peak-hour finding lists, in ascending order, exactly the hours
\* whose high-risk fraction is strictly above the 75th percentile of the
\* per-hour fractions, and it is HIGH with the night-time prescriptions
\* whichever hours these are.
C24_PeakHoursAbovePercentile ==
    (Derived /\ "HOUR" \in df_columns) =>
        \A i \in FindingsOf(PEAK) :
            /\ rules[i].finding.hours =
                  SortAsc({h \in DatasetHours :
                      Len(dataset) > 0
                      /\ QUANTILE_DEN * HourlyRisk(dataset, h) > QuantileScaled(dataset)})
            /\ \A k \in DOMAIN rules[i].finding.hours :
                  \E h \in DatasetHours :
                      MeanLess(HourFraction(h), HourFraction(rules[i].finding.hours[k]))
            /\ rules[i].priority = "HIGH"
            /\ rules[i].prescriptions = PRESCRIPTIONS["HIGH_RISK_TIME_NIGHT"]

\* three hours with fractions 0, 1 and 0: the percentile is 1/2 and the
\* finding names hour 13 alone, a day hour, with the night-time prescriptions
C24_Witness ==
    /\ Derived
    /\ DatasetHours = RowHours
    /\ HourFraction(2) = <<0, 1>> /\ HourFraction(13) = <<1, 1>> /\ HourFraction(22) = <<0, 1>>
    /\ \E i \in FindingsOf(PEAK) :
          /\ rules[i].finding.hours = <<13>>
          /\ rules[i].prescriptions = PRESCRIPTIONS["HIGH_RISK_TIME_NIGHT"]

RuleRank(text) ==
    CASE text = DOMINANT -> 1
      [] text = PEAK     -> 2
      [] text = WEEKEND  -> 3
      [] text = VOLUME   -> 4

\* C25: the findings come in the order the rules are evaluated, dominant
\* category, peak hours, weekend skew, then the volume findings by
\* descending count, and are not sorted by priority.
C25_EvaluationOrder ==
    Derived =>
        \A i, j \in DOMAIN rules :
            i < j =>
                /\ RuleRank(rules[i].finding.text) <= RuleRank(rules[j].finding.text)
                /\ RuleRank(rules[i].finding.text) < RuleRank(VOLUME) =>
                      rules[i].finding.text # rules[j].finding.text
                /\ (rules[i].finding.text = VOLUME /\ rules[j].finding.text = VOLUME) =>
                      rules[i].finding.numbers[1] >= rules[j].finding.numbers[1]

\* a returned list of all four rules in which the MEDIUM weekend finding
\* comes before a HIGH volume finding
C25_Witness ==
    /\ Derived
    /\ \E i, j \in DOMAIN rules :
          /\ i < j
          /\ rules[i].finding.text = WEEKEND /\ rules[i].priority = "MEDIUM"
          /\ rules[j].finding.text = VOLUME /\ rules[j].priority = "HIGH"
    /\ FindingsOf(DOMINANT) # {} /\ FindingsOf(PEAK) # {}
    /\ \E i, j \in FindingsOf(VOLUME) : rules[i].finding.numbers[1] > rules[j].finding.numbers[1]

\* C29: with the HOUR column and at least one record the call returns and
\* gives exactly one peak-hour finding, HIGH and with the night-time
\* prescriptions, also when no hour is above the percentile, as when all
\* hours have the same fraction; the finding then names no hour.
C29_OnePeakFindingAlways ==
    ("HOUR" \in df_columns /\ Len(dataset) > 0 /\ derive_pc # "building") =>
        /\ Derived
        /\ Cardinality(FindingsOf(PEAK)) = 1
        /\ \A i \in FindingsOf(PEAK) :
              /\ rules[i].priority = "HIGH"
              /\ rules[i].prescriptions = PRESCRIPTIONS["HIGH_RISK_TIME_NIGHT"]
              /\ (\A g, h \in DatasetHours :
                      ~MeanLess(HourFraction(g), HourFraction(h))) =>
                    rules[i].finding.hours = <<>>

\* a returned list for records of several hours, all of the same fraction:
\* one peak-hour finding that names no hour
C29_Witness ==
    /\ Derived
    /\ Cardinality(DatasetHours) > 1
    /\ \A g, h \in DatasetHours : ~MeanLess(HourFraction(g), HourFraction(h))
    /\ \E i \in FindingsOf(PEAK) :
          /\ rules[i].finding.hours = <<>>
          /\ rules[i].priority = "HIGH"
          /\ rules[i].prescriptions # <<>>

(***************************************************************************)
(* Rule 3 on larger datasets.  The rule reads the IS_WEEKEND and HIGH_RISK *)
(* columns only, so the dataset has these two, and it is given by the      *)
(* number of its rows of each of the four kinds, up to MaxGroup of a kind. *)
(***************************************************************************)
MaxGroup == 10

RECURSIVE Repeat(_, _)
Repeat(row, n) == IF n = 0 THEN <<>> ELSE <<row>> \o Repeat(row, n - 1)

WeekendRow(weekend, high_risk) ==
    [CRIME_CATEGORY |-> NA, HOUR |-> NAInt, IS_WEEKEND |-> weekend, HIGH_RISK |-> high_risk]

InitSkew ==
    /\ pipeline_idle
    /\ df_columns = {"IS_WEEKEND"}
    /\ \E weekday_low, weekday_high, weekend_low, weekend_high \in 0..MaxGroup :
          dataset = Repeat(WeekendRow(0, 0), weekday_low) \o Repeat(WeekendRow(0, 1), weekday_high)
                    \o Repeat(WeekendRow(1, 0), weekend_low) \o Repeat(WeekendRow(1, 1), weekend_high)
    /\ derive_pc = "building"
    /\ rules = <<>>
    /\ pre_off
    /\ live_off
    /\ age_off

NextSkew == derive_call

SpecSkew == InitSkew /\ [][NextSkew]_vars

\* the records of the dataset with IS_WEEKEND = w, and those of them at
\* high risk
DayRecords(w) == Cardinality({r \in DOMAIN dataset : dataset[r].IS_WEEKEND = w})
DayHighRisk(w) ==
    Cardinality({r \in DOMAIN dataset : dataset[r].IS_WEEKEND = w /\ dataset[r].HIGH_RISK = 1})

\* C23: the weekend rule gives a finding, one, MEDIUM and with the weekend
\* prescriptions, exactly when there are weekend and weekday records and the
\* high-risk rate of the weekend records is more than 1.1 times that of the
\* weekday records; with either group empty it gives none.
C23_WeekendFindingIffSkew ==
    (Derived /\ "IS_WEEKEND" \in df_columns) =>
        /\ Cardinality(FindingsOf(WEEKEND)) <= 1
        /\ FindingsOf(WEEKEND) # {} <=>
              /\ DayRecords(0) > 0
              /\ DayRecords(1) > 0
              /\ 10 * DayHighRisk(1) * DayRecords(0) > 11 * DayHighRisk(0) * DayRecords(1)
        /\ \A i \in FindingsOf(WEEKEND) :
              /\ rules[i].priority = "MEDIUM"
              /\ rules[i].prescriptions = PRESCRIPTIONS["HIGH_RISK_WEEKEND"]

\* a returned list with the weekend finding, for a weekday rate of 4/5 and
\* a weekend rate of 9/10, and so above 1.1 times 4/5
C23_Witness ==
    /\ Derived
    /\ FindingsOf(WEEKEND) # {}
    /\ DayRecords(0) = 5 /\ DayHighRisk(0) = 4
    /\ DayRecords(1) = 10 /\ DayHighRisk(1) = 9

(***************************************************************************)
(* Properties of live_mode, under SpecLive.                                *)
(***************************************************************************)
\* C27: in live mode the answer exit, at whichever prompt it is given, ends
\* the loop, and the loop ends on that answer only.
C27_ExitAtAnyPrompt ==
    /\ live_typed = "exit" => live_pc = "exited"
    /\ live_pc \in {"exited", "crashed"} => live_typed = "exit"

(***************************************************************************)
(* The campus flag, under SpecPre.                                         *)
(***************************************************************************)
\* C28: every record of a preprocessed dataset has the same
\* IS_CAMPUS_SPECIFIC, a value of the dataset and not of the record: 1 when
\* the raw file has at least 1000 rows of a campus premise, 0 when it has
\* fewer or has no premise column; and the query record of the report
\* always has 1.
C28_CampusFlagOfDataset ==
    /\ Preprocessed =>
          record.IS_CAMPUS_SPECIFIC =
             IF "Premis Desc" \in raw_columns /\ raw_campus_rows >= 1000 THEN 1 ELSE 0
    /\ \A h \in Hours, w \in BOOLEAN :
          input_df(h, w, DEFAULT_LAT, DEFAULT_LON, VICT_AGE_DEFAULT)["is_campus_specific"] = 1

(***************************************************************************)
(* The victim-age feature of prepare_features.  load_data reads the        *)
(* column from a CSV file, so a cell is a number, empty (NaN), or text     *)
(* that is no number; one cell of text makes the whole column of dtype     *)
(* object.  The ages are even, so that the mean of two of them is whole.   *)
(***************************************************************************)
MaxAges == 3

\* model.py:97, clip(0, 100)
CLIP_LOWER == 0
CLIP_UPPER == 100

\* model.py:107, fillna(0)
FILL_VALUE == 0

NaN == [kind |-> "nan", val |-> 0]
AgeText == [kind |-> "text", val |-> 0]
Age(a) == [kind |-> "num", val |-> a]

AgeValues == {-2, 40, 120}
AgeCells == {NaN, AgeText} \cup {Age(a) : a \in AgeValues}
AgeColumns == UNION {[1..n -> AgeCells] : n \in 1..MaxAges}

\* pd.to_numeric(column, errors="coerce"): what is no number becomes NaN
to_numeric(column) ==
    [i \in DOMAIN column |-> IF column[i].kind = "text" THEN NaN ELSE column[i]]

\* Series.median of a column of dtype object that holds text raises TypeError
median_raises(column) == \E i \in DOMAIN column : column[i].kind = "text"

\* the k-th smallest of a sequence of numbers
Kth(cells, k) ==
    LET below(c) == Cardinality({i \in DOMAIN cells : cells[i].val < c.val})
        upto(c) == Cardinality({i \in DOMAIN cells : cells[i].val <= c.val})
    IN  CHOOSE c \in {cells[i] : i \in DOMAIN cells} : below(c) < k /\ k <= upto(c)

\* Series.median of a numeric column: NaN is skipped, and the median of no
\* number is NaN
median(column) ==
    LET cells == SelectSeq(column, LAMBDA c : c.kind = "num")
        n == Len(cells)
    IN  IF n = 0 THEN NaN
        ELSE IF n % 2 = 1 THEN Kth(cells, (n + 1) \div 2)
        ELSE Age((Kth(cells, n \div 2).val + Kth(cells, n \div 2 + 1).val) \div 2)

\* Series.fillna(value)
fillna(column, value) ==
    [i \in DOMAIN column |-> IF column[i].kind = "nan" THEN value ELSE column[i]]

\* Series.clip(lower, upper): NaN stays NaN
clip(column, lower, upper) ==
    [i \in DOMAIN column |->
        IF column[i].kind # "num" THEN column[i]
        ELSE IF column[i].val < lower THEN Age(lower)
        ELSE IF column[i].val > upper THEN Age(upper)
        ELSE column[i]]

\* model.py:96-97 and 107: the VICT_AGE column of X
vict_age_feature(column) ==
    fillna(clip(fillna(to_numeric(column), median(column)), CLIP_LOWER, CLIP_UPPER),
           Age(FILL_VALUE))

InitAge ==
    /\ pipeline_idle
    /\ df_columns = {"VICT_AGE"}
    /\ derive_off
    /\ pre_off
    /\ live_off
    /\ age_column \in AgeColumns
    /\ age_pc = "loaded"
    /\ age_feature = <<>>

\* model.py:72-111, prepare_features on a frame with a VICT_AGE column: the
\* median is taken of the column as loaded, line 96, before the conversion
\* takes effect
age_prepare_features ==
    /\ age_pc = "loaded"
    /\ IF median_raises(age_column)
       THEN /\ age_pc' = "raised"
            /\ age_feature' = <<>>
       ELSE /\ age_pc' = "prepared"
            /\ age_feature' = vict_age_feature(age_column)
    /\ UNCHANGED age_column
    /\ UNCHANGED <<run_vars, model_file, report_vars, derive_vars, pre_vars, live_vars>>

NextAge == age_prepare_features

SpecAge == InitAge /\ [][NextAge]_vars

\* the median of the ages of the dataset that are numbers, clipped
ClippedMedian ==
    LET m == median(to_numeric(age_column))
    IN  IF m.val < 0 THEN 0 ELSE IF m.val > 100 THEN 100 ELSE m.val

HasNumber == \E i \in DOMAIN age_column : age_column[i].kind = "num"

\* what the claim says of a returned feature column: a value for every
\* record, each in 0..100, and the clipped median where the age was missing
\* or no number
AgeFeatureAsDocumented ==
    /\ Len(age_feature) = Len(age_column)
    /\ \A i \in DOMAIN age_feature :
          /\ age_feature[i].kind = "num"
          /\ age_feature[i].val \in 0..100
          /\ (age_column[i].kind # "num" /\ HasNumber) =>
                age_feature[i].val = ClippedMedian

\* C26: prepare_features rejects no dataset for its ages, and after it every
\* victim-age value lies in 0..100, a missing or non-numeric age having been
\* replaced by the median of the dataset and the result clipped to 0..100.
C26_AgeImputedAndClipped ==
    /\ age_pc # "raised"
    /\ age_pc = "prepared" => AgeFeatureAsDocumented

=============================================================================
